---- MODULE Spec2Model ----
(***************************************************************************)
(* A model of las::Writer (src/src/writer.rs): the open/closed lifecycle   *)
(* of a writer over a seekable sink, the validation of each point against  *)
(* the header's point format, and the two-phase commit of the header.      *)
(*                                                                         *)
(* The sink is a sequence of cells and a position.  A raw header occupies  *)
(* two cells, every other record one cell.  The header is configured with  *)
(* two metadata records, one padding cell and two extended metadata        *)
(* records.  Every fallible step of the code (each `?`) may fail; a        *)
(* failing write of a header or of a point may leave a partial record.     *)
(***************************************************************************)
EXTENDS Integers, Sequences, FiniteSets, TLC

\* ---- bounds of the model ----
MaxStart == 1      \* the sink's position when it is handed to Writer::new
MaxCoord == 1      \* coordinates of a point are in 0..MaxCoord
MaxExtra == 1      \* longest extra-byte block
MaxPoints == 2     \* points accepted by one writer
MaxFaults == 1     \* calls that meet a failing sink or encode step

VARIABLES
    phase,      \* "start": before Writer::new; "open": a Writer exists;
                \* "failed": new returned Err; "dropped": the Writer is gone
    closed,     \* Writer.closed
    header,     \* Writer.header (before new: the header passed in)
    write,      \* Writer.write, the sink: [data, pos]
    start,      \* the position the sink had when it was passed to new
    last,       \* the last call: [op, res], whether the writer was open when
                \* it began, and for a write whether the point lacked a
                \* required attribute, had a surplus one, and had the format's
                \* extra-byte length; ctx is "stats" for a new given a header
                \* with statistics, "after_reject" for a write that follows a
                \* rejected write, "after_failed_close" for a close that
                \* follows a failed close
    accepted,   \* positions of the points that passed validation, in order
    faults,     \* failures met so far
    panicked,   \* a panic was raised
    returned    \* the sink handed back by into_inner, or NoSink

vars == <<phase, closed, header, write, start, last, accepted, faults,
          panicked, returned>>

\* ---- values ----
Inf == MaxCoord + 1
NegInf == 0 - 1
Coords == 0..MaxCoord
Positions == Coords \X Coords

Max(a, b) == IF a >= b THEN a ELSE b
Min(a, b) == IF a <= b THEN a ELSE b

Formats == [has_gps_time : BOOLEAN, has_color : BOOLEAN, has_nir : BOOLEAN,
            has_waveform : BOOLEAN, extra_bytes : 0..MaxExtra]

Points == [pos : Positions, gps_time : BOOLEAN, color : BOOLEAN, nir : BOOLEAN,
           waveform : BOOLEAN, extra_bytes : 0..MaxExtra]

EmptyLo == <<Inf, Inf>>
EmptyHi == <<NegInf, NegInf>>

\* a cell of the sink; the fields a kind does not use are zero
Cell(k, i, n, lo, hi) == [k |-> k, i |-> i, n |-> n, lo |-> lo, hi |-> hi]
PreCell == Cell("pre", 0, 0, <<0, 0>>, <<0, 0>>)
JunkCell == Cell("junk", 0, 0, <<0, 0>>, <<0, 0>>)
VlrCell(i) == Cell("vlr", i, 0, <<0, 0>>, <<0, 0>>)
EvlrCell(i) == Cell("evlr", i, 0, <<0, 0>>, <<0, 0>>)
PadCell(i) == Cell("pad", i, 0, <<0, 0>>, <<0, 0>>)
PointCell(p) == Cell("pt", 0, 0, p.pos, p.pos)

NoFault == [step |-> "none", at |-> 0, part |-> 0]
Fault(s, a, p) == [step |-> s, at |-> a, part |-> p]

\* ---- the sink (std::io::Write + Seek): cells, a position, and a count of
\* ---- the seeks and of the complete headers it has received
NoSink == [data |-> <<>>, pos |-> 0 - 1, seeks |-> 0, hdrs |-> 0]

\* write_all(cells) at the current position: overwrites, and extends at the end
SinkWrite(s, cells) ==
    LET n == Len(cells)
        newlen == Max(Len(s.data), s.pos + n)
    IN  [s EXCEPT !.data = [i \in 1..newlen |->
                               IF i > s.pos /\ i <= s.pos + n
                               THEN cells[i - s.pos] ELSE s.data[i]],
                  !.pos = s.pos + n]

\* seek(SeekFrom::Start(p))
SinkSeek(s, p) == [s EXCEPT !.pos = p, !.seeks = s.seeks + 1]

\* ---- Header and Point services (not in src/: modelled from the spec) ----

\* Header::clear: count -> 0, bounds -> empty
clear(h) == [h EXCEPT !.number_of_points = 0, !.min = EmptyLo, !.max = EmptyHi]

\* Header::add_point: count + 1, bounds grown to include the point
add_point(h, p) ==
    [h EXCEPT !.number_of_points = h.number_of_points + 1,
              !.min = <<Min(h.min[1], p.pos[1]), Min(h.min[2], p.pos[2])>>,
              !.max = <<Max(h.max[1], p.pos[1]), Max(h.max[2], p.pos[2])>>]

\* Header::into_raw: the HeaderSize cells of the binary header
HeaderCell(i, h) == Cell("hdr", i, h.number_of_points, h.min, h.max)
into_raw(h) == <<HeaderCell(1, h), HeaderCell(2, h)>>
HeaderSize == Len(into_raw([number_of_points |-> 0, min |-> EmptyLo, max |-> EmptyHi]))

\* Point::matches(format): every optional attribute is present exactly when
\* the format has it, and the extra bytes have the format's length
matches(p, f) ==
    /\ p.gps_time = f.has_gps_time
    /\ p.color = f.has_color
    /\ p.nir = f.has_nir
    /\ p.waveform = f.has_waveform
    /\ p.extra_bytes = f.extra_bytes

\* the configured lists: Header::vlrs, Header::evlrs, Header::vlr_padding
vlrs == <<VlrCell(1), VlrCell(2)>>
evlrs == <<EvlrCell(1), EvlrCell(2)>>
vlr_padding == <<PadCell(1)>>

\* ---- the steps of the writer ----

\* records.into_raw()?.write_to(sink)? for each record in list order; the
\* record fault.at fails in its encoding (enc) or in its write (io)
WriteRecords(s, recs, enc, io, fault) ==
    IF fault.step \in {enc, io} /\ fault.at \in 1..Len(recs)
    THEN [write |-> SinkWrite(s, SubSeq(recs, 1, fault.at - 1)),
          res |-> IF fault.step = enc THEN "Encode" ELSE "Io"]
    ELSE [write |-> SinkWrite(s, recs), res |-> "Ok"]

\* header.clone().into_raw().and_then(|raw| raw.write_to(sink))
WriteHeader(s, h, fault) ==
    IF fault.step = "header_encode" THEN [write |-> s, res |-> "Encode"]
    ELSE IF fault.step = "header_io"
    THEN [write |-> SinkWrite(s, SubSeq(into_raw(h), 1, fault.part)), res |-> "Io"]
    ELSE [write |-> [SinkWrite(s, into_raw(h)) EXCEPT !.hdrs = s.hdrs + 1],
          res |-> "Ok"]

\* new with the header's statistics kept
Writer_new_keeps_stats(w, hdr, fault) ==
    LET a == WriteHeader(w, hdr, fault)
        b == WriteRecords(a.write, vlrs, "vlr_encode", "vlr_io", fault)
        self(s) == [closed |-> FALSE, header |-> hdr, write |-> s]
    IN  IF a.res # "Ok" THEN [self |-> self(a.write), res |-> a.res]
        ELSE IF b.res # "Ok" THEN [self |-> self(b.write), res |-> b.res]
        ELSE IF fault.step = "pad_io"
        THEN [self |-> self(SinkWrite(b.write, SubSeq(vlr_padding, 1, fault.part))),
              res |-> "Io"]
        ELSE [self |-> self(SinkWrite(b.write, vlr_padding)), res |-> "Ok"]

\* Writer::new(write, header)
Writer_new(w, hdr, fault) ==
    LET h == clear(hdr)
        a == WriteHeader(w, h, fault)
        b == WriteRecords(a.write, vlrs, "vlr_encode", "vlr_io", fault)
        self(s) == [closed |-> FALSE, header |-> h, write |-> s]
    IN  IF a.res # "Ok" THEN [self |-> self(a.write), res |-> a.res]
        ELSE IF b.res # "Ok" THEN [self |-> self(b.write), res |-> b.res]
        ELSE IF vlr_padding # <<>> /\ fault.step = "pad_io"
        THEN [self |-> self(SinkWrite(b.write, SubSeq(vlr_padding, 1, fault.part))),
              res |-> "Io"]
        ELSE [self |-> self(IF vlr_padding # <<>>
                            THEN SinkWrite(b.write, vlr_padding) ELSE b.write),
              res |-> "Ok"]

\* write with the validation against the format left out
Writer_write_unvalidated(self, point, fault) ==
    IF self.closed THEN [self |-> self, res |-> "Closed"]
    ELSE [self |-> [self EXCEPT !.header = add_point(self.header, point),
                      !.write = SinkWrite(self.write, <<PointCell(point)>>)],
          res |-> "Ok"]

\* write with the header updated before the point is validated
Writer_write_counts_first(self, point, fault) ==
    IF self.closed THEN [self |-> self, res |-> "Closed"]
    ELSE LET h == add_point(self.header, point) IN
         IF ~matches(point, self.header.point_format)
         THEN [self |-> [self EXCEPT !.header = h], res |-> "PointAttributes"]
         ELSE [self |-> [self EXCEPT !.header = h,
                           !.write = SinkWrite(self.write, <<PointCell(point)>>)],
               res |-> "Ok"]

\* write with the closed check left out
Writer_write_unchecked(self, point, fault) ==
    IF ~matches(point, self.header.point_format)
    THEN [self |-> self, res |-> "PointAttributes"]
    ELSE [self |-> [self EXCEPT !.header = add_point(self.header, point),
                      !.write = SinkWrite(self.write, <<PointCell(point)>>)],
          res |-> "Ok"]

\* write without the update of the header
Writer_write_uncounted(self, point, fault) ==
    IF self.closed THEN [self |-> self, res |-> "Closed"]
    ELSE IF ~matches(point, self.header.point_format)
    THEN [self |-> self, res |-> "PointAttributes"]
    ELSE [self |-> [self EXCEPT
                      !.write = SinkWrite(self.write, <<PointCell(point)>>)],
          res |-> "Ok"]

\* write that closes the writer when it rejects a point
Writer_write_rejection_closes(self, point, fault) ==
    IF self.closed THEN [self |-> self, res |-> "Closed"]
    ELSE IF ~matches(point, self.header.point_format)
    THEN [self |-> [self EXCEPT !.closed = TRUE], res |-> "PointAttributes"]
    ELSE [self |-> [self EXCEPT !.header = add_point(self.header, point),
                      !.write = SinkWrite(self.write, <<PointCell(point)>>)],
          res |-> "Ok"]

\* write that updates the header only after the point is on the sink
Writer_write_counts_last(self, point, fault) ==
    IF self.closed THEN [self |-> self, res |-> "Closed"]
    ELSE IF ~matches(point, self.header.point_format)
    THEN [self |-> self, res |-> "PointAttributes"]
    ELSE IF fault.step = "point_encode" THEN [self |-> self, res |-> "Encode"]
    ELSE IF fault.step = "point_io"
    THEN [self |-> [self EXCEPT !.write = IF fault.part = 1
                                          THEN SinkWrite(self.write, <<JunkCell>>)
                                          ELSE self.write],
          res |-> "Io"]
    ELSE [self |-> [self EXCEPT !.header = add_point(self.header, point),
                      !.write = SinkWrite(self.write, <<PointCell(point)>>)],
          res |-> "Ok"]

\* write that validates the point before it looks at the closed flag
Writer_write_validates_first(self, point, fault) ==
    IF ~matches(point, self.header.point_format)
    THEN [self |-> self, res |-> "PointAttributes"]
    ELSE IF self.closed THEN [self |-> self, res |-> "Closed"]
    ELSE LET h == add_point(self.header, point) IN
         IF fault.step = "point_encode"
         THEN [self |-> [self EXCEPT !.header = h], res |-> "Encode"]
         ELSE IF fault.step = "point_io"
         THEN [self |-> [self EXCEPT !.header = h,
                           !.write = IF fault.part = 1
                                     THEN SinkWrite(self.write, <<JunkCell>>)
                                     ELSE self.write],
               res |-> "Io"]
         ELSE [self |-> [self EXCEPT !.header = h,
                           !.write = SinkWrite(self.write, <<PointCell(point)>>)],
               res |-> "Ok"]

\* Writer::write(point)
Writer_write(self, point, fault) ==
    IF self.closed THEN [self |-> self, res |-> "Closed"]
    ELSE IF ~matches(point, self.header.point_format)
    THEN [self |-> self, res |-> "PointAttributes"]
    ELSE LET h == add_point(self.header, point) IN
         IF fault.step = "point_encode"
         THEN [self |-> [self EXCEPT !.header = h], res |-> "Encode"]
         ELSE IF fault.step = "point_io"
         THEN [self |-> [self EXCEPT !.header = h,
                           !.write = IF fault.part = 1
                                     THEN SinkWrite(self.write, <<JunkCell>>)
                                     ELSE self.write],
               res |-> "Io"]
         ELSE [self |-> [self EXCEPT !.header = h,
                           !.write = SinkWrite(self.write, <<PointCell(point)>>)],
               res |-> "Ok"]

\* close without the rewrite of the header
Writer_close_no_rewrite(self, fault) ==
    IF self.closed THEN [self |-> self, res |-> "Closed"]
    ELSE LET e == WriteRecords(self.write, evlrs, "evlr_encode", "evlr_io", fault) IN
         IF e.res # "Ok" THEN [self |-> [self EXCEPT !.write = e.write], res |-> e.res]
         ELSE [self |-> [self EXCEPT !.write = e.write, !.closed = TRUE], res |-> "Ok"]

\* close marking the writer closed before the header is rewritten
Writer_close_marks_early(self, fault) ==
    IF self.closed THEN [self |-> self, res |-> "Closed"]
    ELSE LET e == WriteRecords(self.write, evlrs, "evlr_encode", "evlr_io", fault) IN
         IF e.res # "Ok" THEN [self |-> [self EXCEPT !.write = e.write], res |-> e.res]
         ELSE IF fault.step = "seek"
         THEN [self |-> [self EXCEPT !.write = e.write], res |-> "Io"]
         ELSE LET h == WriteHeader(SinkSeek(e.write, 0), self.header, fault) IN
              [self |-> [self EXCEPT !.write = h.write, !.closed = TRUE],
               res |-> h.res]

\* Writer::close()
Writer_close(self, fault) ==
    IF self.closed THEN [self |-> self, res |-> "Closed"]
    ELSE LET e == WriteRecords(self.write, evlrs, "evlr_encode", "evlr_io", fault) IN
         IF e.res # "Ok" THEN [self |-> [self EXCEPT !.write = e.write], res |-> e.res]
         ELSE IF fault.step = "seek"
         THEN [self |-> [self EXCEPT !.write = e.write], res |-> "Io"]
         ELSE LET h == WriteHeader(SinkSeek(e.write, 0), self.header, fault) IN
              IF h.res # "Ok"
              THEN [self |-> [self EXCEPT !.write = h.write], res |-> h.res]
              ELSE [self |-> [self EXCEPT !.write = h.write, !.closed = TRUE],
                    res |-> "Ok"]

\* drop that releases the writer without closing it
Writer_drop_nothing(self, fault) == [self |-> self, panic |-> FALSE]

\* drop that closes the writer and ignores the result
Writer_drop_silent(self, fault) ==
    IF ~self.closed
    THEN [self |-> Writer_close(self, fault).self, panic |-> FALSE]
    ELSE [self |-> self, panic |-> FALSE]

\* drop that closes the writer whether or not it is closed already
Writer_drop_always_closes(self, fault) ==
    LET c == Writer_close(self, fault) IN [self |-> c.self, panic |-> c.res # "Ok"]

\* Drop for Writer: close().expect(..) when still open
Writer_drop(self, fault) ==
    IF ~self.closed
    THEN LET c == Writer_close(self, fault) IN [self |-> c.self, panic |-> c.res # "Ok"]
    ELSE [self |-> self, panic |-> FALSE]

\* into_inner calling close whether or not the writer is closed
Writer_into_inner_always_closes(self, fault) ==
    LET c == Writer_close(self, fault)
    IN  IF c.res # "Ok" THEN [self |-> c.self, res |-> c.res, sink |-> NoSink]
        ELSE IF fault.step = "clone_seek"
        THEN [self |-> c.self, res |-> "Io", sink |-> NoSink]
        ELSE [self |-> c.self, res |-> "Ok", sink |-> SinkSeek(c.self.write, 0)]

\* into_inner seeking the writer's own sink and returning it
Writer_into_inner_seeks_own(self, fault) ==
    LET c == IF ~self.closed THEN Writer_close(self, fault)
             ELSE [self |-> self, res |-> "Ok"]
    IN  IF c.res # "Ok" THEN [self |-> c.self, res |-> c.res, sink |-> NoSink]
        ELSE IF fault.step = "clone_seek"
        THEN [self |-> c.self, res |-> "Io", sink |-> NoSink]
        ELSE [self |-> [c.self EXCEPT !.write = SinkSeek(c.self.write, 0)],
              res |-> "Ok", sink |-> SinkSeek(c.self.write, 0)]

\* Writer::into_inner(), up to its return (the writer is dropped after it)
Writer_into_inner(self, fault) ==
    LET c == IF ~self.closed THEN Writer_close(self, fault)
             ELSE [self |-> self, res |-> "Ok"]
    IN  IF c.res # "Ok" THEN [self |-> c.self, res |-> c.res, sink |-> NoSink]
        ELSE IF fault.step = "clone_seek"
        THEN [self |-> c.self, res |-> "Io", sink |-> NoSink]
        ELSE [self |-> c.self, res |-> "Ok",
              sink |-> SinkSeek(c.self.write, 0)]

\* ---- the faults a call may meet ----
NewFaults ==
    {NoFault, Fault("header_encode", 0, 0)}
    \cup {Fault("header_io", 0, k) : k \in 0..(HeaderSize - 1)}
    \cup {Fault("vlr_encode", j, 0) : j \in 1..Len(vlrs)}
    \cup {Fault("vlr_io", j, 0) : j \in 1..Len(vlrs)}
    \cup {Fault("pad_io", 0, k) : k \in 0..(Len(vlr_padding) - 1)}

WriteFaults ==
    {NoFault, Fault("point_encode", 0, 0)}
    \cup {Fault("point_io", 0, k) : k \in 0..1}

CloseFaults ==
    {NoFault, Fault("seek", 0, 0), Fault("header_encode", 0, 0)}
    \cup {Fault("header_io", 0, k) : k \in 0..(HeaderSize - 1)}
    \cup {Fault("evlr_encode", j, 0) : j \in 1..Len(evlrs)}
    \cup {Fault("evlr_io", j, 0) : j \in 1..Len(evlrs)}

IntoInnerFaults == CloseFaults \cup {Fault("clone_seek", 0, 0)}

\* the faults open to a call when `left` more failures may happen (a failure
\* that repeats within one call counts once)
Budget(set, left) == IF left > 0 THEN set ELSE {NoFault}

Failed(res) == res \in {"Io", "Encode"}
Cost(b) == IF b THEN 1 ELSE 0

\* ---- the format and points of the lifecycle specification, those of the
\* ---- module's documentation: format 1 (gps time), and points with no
\* ---- attribute, with gps time, with gps time and color
Format0 == [has_gps_time |-> FALSE, has_color |-> FALSE, has_nir |-> FALSE,
            has_waveform |-> FALSE, extra_bytes |-> 0]
Format1 == [Format0 EXCEPT !.has_gps_time = TRUE]
LifeFormats == {Format1}
LifePoints ==
    {p \in Points : /\ ~p.nir /\ ~p.waveform /\ p.extra_bytes = 0
                    /\ (p.color => p.gps_time)
                    /\ p.pos[1] + p.pos[2] = MaxCoord}

\* the validation contract as the specification words it: the set of optional
\* attributes present on the point is the set the format requires, and the
\* extra-byte lengths agree
Present(p) ==
    {a \in {"time", "color", "nir", "waveform", "extra"} :
        \/ a = "time" /\ p.gps_time
        \/ a = "color" /\ p.color
        \/ a = "nir" /\ p.nir
        \/ a = "waveform" /\ p.waveform
        \/ a = "extra" /\ p.extra_bytes > 0}
Required(f) ==
    {a \in {"time", "color", "nir", "waveform", "extra"} :
        \/ a = "time" /\ f.has_gps_time
        \/ a = "color" /\ f.has_color
        \/ a = "nir" /\ f.has_nir
        \/ a = "waveform" /\ f.has_waveform
        \/ a = "extra" /\ f.extra_bytes > 0}
Acceptable(p, f) == Present(p) = Required(f) /\ p.extra_bytes = f.extra_bytes

Self == [closed |-> closed, header |-> header, write |-> write]
Call(op, res) ==
    [op |-> op, res |-> res, open |-> phase = "open" /\ ~closed,
     ctx |-> IF op = "new" /\ header.number_of_points > 0 THEN "stats"
             ELSE IF op = "close" /\ last.op = "close" /\ Failed(last.res)
             THEN "after_failed_close" ELSE "none",
     missing |-> FALSE, surplus |-> FALSE, extra_ok |-> TRUE]
WriteCall(point, f, res) ==
    [op |-> "write", res |-> res, open |-> ~closed,
     ctx |-> IF last.op = "write" /\ last.res = "PointAttributes"
             THEN "after_reject" ELSE "none",
     missing |-> Required(f) \ Present(point) # {},
     surplus |-> Present(point) \ Required(f) # {},
     extra_ok |-> point.extra_bytes = f.extra_bytes]

\* ---- the state before construction: a sink at position start, holding
\* ---- start cells already, and the header the caller passes in
InitWith(formats) ==
    /\ phase = "start"
    /\ closed = FALSE
    /\ start \in 0..MaxStart
    /\ write = [data |-> [i \in 1..start |-> PreCell], pos |-> start,
                seeks |-> 0, hdrs |-> 0]
    /\ \E f \in formats, used \in BOOLEAN :
          header = [point_format |-> f,
                    number_of_points |-> IF used THEN 1 ELSE 0,
                    min |-> IF used THEN <<0, 0>> ELSE EmptyLo,
                    max |-> IF used THEN <<MaxCoord, 1>> ELSE EmptyHi]
    /\ last = Call("none", "Ok")
    /\ accepted = <<>>
    /\ faults = 0
    /\ panicked = FALSE
    /\ returned = NoSink

Init == InitWith(LifeFormats)

\* let writer = Writer::new(sink, header)
New ==
    /\ phase = "start"
    /\ \E fault \in Budget(NewFaults, MaxFaults) :
          LET r == Writer_new(write, header, fault) IN
          /\ phase' = IF r.res = "Ok" THEN "open" ELSE "failed"
          /\ closed' = r.self.closed
          /\ header' = r.self.header
          /\ write' = r.self.write
          /\ last' = Call("new", r.res)
          /\ faults' = faults + Cost(fault # NoFault)
    /\ UNCHANGED <<start, accepted, panicked, returned>>

\* writer.write(point), for a point of `points`
WriteOf(points) ==
    /\ phase = "open"
    /\ \E point \in points, fault \in Budget(WriteFaults, MaxFaults - faults) :
          LET r == Writer_write(Self, point, fault) IN
          /\ fault # NoFault => ~closed /\ Acceptable(point, header.point_format)
          /\ r.self.header.number_of_points <= MaxPoints
          /\ closed' = r.self.closed
          /\ header' = r.self.header
          /\ write' = r.self.write
          /\ last' = WriteCall(point, header.point_format, r.res)
          /\ faults' = faults + Cost(fault # NoFault)
          /\ accepted' = IF ~closed /\ Acceptable(point, header.point_format)
                          THEN Append(accepted, point.pos) ELSE accepted
    /\ UNCHANGED <<phase, start, panicked, returned>>

Write == WriteOf(LifePoints)

\* writer.close()
Close ==
    /\ phase = "open"
    /\ \E fault \in Budget(CloseFaults, MaxFaults - faults) :
          LET r == Writer_close(Self, fault) IN
          /\ fault # NoFault => ~closed
          /\ closed' = r.self.closed
          /\ header' = r.self.header
          /\ write' = r.self.write
          /\ last' = Call("close", r.res)
          /\ faults' = faults + Cost(fault # NoFault)
    /\ UNCHANGED <<phase, start, accepted, panicked, returned>>

\* writer.into_inner(): the call, then the drop of the consumed writer
IntoInner ==
    /\ phase = "open"
    /\ \E fault \in Budget(IntoInnerFaults, MaxFaults - faults) :
          LET r == Writer_into_inner(Self, fault) IN
          /\ fault \in CloseFaults \ {NoFault} => ~closed
          /\ \E dfault \in Budget(CloseFaults,
                                  MaxFaults - faults - Cost(fault # NoFault))
                              \cup (CloseFaults \cap {fault}) :
                LET d == Writer_drop(r.self, dfault) IN
                /\ dfault # NoFault => ~closed /\ fault \in CloseFaults \ {NoFault}
                /\ closed' = d.self.closed
                /\ header' = d.self.header
                /\ write' = d.self.write
                /\ last' = Call("into_inner", r.res)
                /\ faults' = faults + Cost(fault # NoFault)
                                    + Cost(dfault \notin {NoFault, fault})
                /\ panicked' = d.panic
                /\ returned' = r.sink
    /\ phase' = "dropped"
    /\ UNCHANGED <<start, accepted>>

\* the owner releases the writer: Drop::drop
Release ==
    /\ phase = "open"
    /\ \E fault \in Budget(CloseFaults, MaxFaults - faults) :
          LET d == Writer_drop(Self, fault) IN
          /\ fault # NoFault => ~closed
          /\ closed' = d.self.closed
          /\ header' = d.self.header
          /\ write' = d.self.write
          /\ last' = Call("drop", IF d.panic THEN "Panic" ELSE "Ok")
          /\ faults' = faults + Cost(fault # NoFault)
          /\ panicked' = d.panic
    /\ phase' = "dropped"
    /\ UNCHANGED <<start, accepted, returned>>

Next == New \/ Write \/ Close \/ IntoInner \/ Release

Spec == Init /\ [][Next]_vars

\* ---- the validation specification: every format, every point, one write
InitV == InitWith(Formats)

WriteV == last.op = "new" /\ WriteOf(Points)

NextV == New \/ WriteV

SpecV == InitV /\ [][NextV]_vars

\* ---- what the claims speak of ----

SetMin(S, none) == IF S = {} THEN none ELSE CHOOSE x \in S : \A y \in S : x <= y
SetMax(S, none) == IF S = {} THEN none ELSE CHOOSE x \in S : \A y \in S : x >= y
Axis(seq, k) == {seq[i][k] : i \in 1..Len(seq)}
\* the componentwise minimum and maximum of a list of positions
MinOf(seq) == <<SetMin(Axis(seq, 1), Inf), SetMin(Axis(seq, 2), Inf)>>
MaxOf(seq) == <<SetMax(Axis(seq, 1), NegInf), SetMax(Axis(seq, 2), NegInf)>>

\* the cells from offset o on are a header carrying n, lo, hi
HeaderAt(data, o, n, lo, hi) ==
    /\ Len(data) >= o + HeaderSize
    /\ \A i \in 1..HeaderSize : data[o + i] = Cell("hdr", i, n, lo, hi)

\* the header of the points accepted so far lies at offset o of the sink
FinalHeaderAt(o) ==
    HeaderAt(write.data, o, Len(accepted), MinOf(accepted), MaxOf(accepted))

\* the stream a reader expects: header, metadata records, padding, one point
\* record per accepted point, extended metadata records
ExpectedStream ==
    [i \in 1..HeaderSize |->
        Cell("hdr", i, Len(accepted), MinOf(accepted), MaxOf(accepted))]
    \o vlrs \o vlr_padding
    \o [i \in 1..Len(accepted) |-> Cell("pt", 0, 0, accepted[i], accepted[i])]
    \o evlrs

StreamFrom(o) == SubSeq(write.data, o + 1, Len(write.data))

EvlrsAtEnd ==
    /\ Len(write.data) >= Len(evlrs)
    /\ SubSeq(write.data, Len(write.data) - Len(evlrs) + 1, Len(write.data)) = evlrs

\* C1: on an open writer, write(P) under format F succeeds (sink and encode
\* not failing) exactly when P has no missing and no surplus optional
\* attribute and the extra-byte length of F; every other P is rejected with
\* PointAttributes.
C1_WriteAcceptsExactMatch ==
    (last.op = "write" /\ last.open) =>
        LET exact == ~last.missing /\ ~last.surplus /\ last.extra_ok IN
        /\ exact => last.res \in {"Ok", "Io", "Encode"}
        /\ (exact /\ faults = 0) => last.res = "Ok"
        /\ ~exact => last.res = "PointAttributes"

\* a point with every required attribute and a surplus one has been rejected
C1_Witness ==
    /\ last.op = "write" /\ last.res = "PointAttributes"
    /\ last.surplus /\ ~last.missing /\ last.extra_ok

\* C2: a write that fails with PointAttributes leaves the header (count and
\* bounds), the closed flag, and the sink's contents and position as they were.
C2_RejectionHasNoEffect ==
    [][(last'.op = "write" /\ last'.res = "PointAttributes")
         => (header' = header /\ closed' = closed /\ write' = write)]_vars

\* a point has been rejected by a writer that had already accepted one
C2_Witness ==
    /\ last.op = "write" /\ last.res = "PointAttributes"
    /\ header.number_of_points > 0

\* C3: closed never goes back from true to false, and on a closed writer
\* every write and every close fails with Closed.
C3_ClosedIsAbsorbing ==
    [][closed => /\ closed'
                 /\ (last'.op \in {"write", "close"} => last'.res = "Closed")]_vars

\* a write of an acceptable point has failed with Closed after a close
C3_Witness ==
    /\ closed /\ phase = "open"
    /\ last.op = "write" /\ last.res = "Closed"
    /\ ~last.missing /\ ~last.surplus

\* C4: once the writer is closed, the header at the start of the stream carries
\* the number of points that passed validation and the componentwise minimum
\* and maximum of their positions.
C4_HeaderRoundTrip == closed => FinalHeaderAt(0)

\* two points at different positions accepted, one point rejected, then closed
C4_Witness ==
    /\ closed /\ last.op = "close" /\ last.res = "Ok"
    /\ Len(accepted) = 2 /\ accepted[1] # accepted[2]
    /\ MinOf(accepted) \notin {accepted[1], accepted[2]}

\* C5 (as claimed): after new, writes and a successful close with nothing
\* failing, the stream read back in order (from offset 0, or from the offset
\* at which the sink was handed over) is header, metadata records, padding,
\* one point record per accepted write, extended metadata records.
C5_StreamOrdering ==
    (closed /\ faults = 0) => \E o \in {0, start} : StreamFrom(o) = ExpectedStream

\* C6 (as claimed): close rewrites the header over the cells the placeholder
\* written by new occupies, those from the sink's starting position on.
C6_HeaderOverPlaceholder ==
    (closed /\ faults = 0) => FinalHeaderAt(start)

\* C7: a writer released while open, nothing failing, ends closed, with the
\* finalized header at the start of the stream and the extended metadata
\* records at its end.
C7_AutomaticClose ==
    (phase = "dropped" /\ faults = 0) =>
        closed /\ ~panicked /\ FinalHeaderAt(0) /\ EvlrsAtEnd

\* an open writer holding a point has been released
C7_Witness ==
    /\ phase = "dropped" /\ last.op = "drop" /\ last.open
    /\ faults = 0 /\ Len(accepted) > 0

\* C8: a failure met by the close of a release ends in a panic; the same
\* failure met by an explicit close is returned as an error, without a panic,
\* and the writer stays in its owner's hands.
C8_DropFailureIsFatal ==
    [][/\ (last'.op = "drop" /\ faults' > faults) => panicked'
       /\ (last'.op = "close" /\ faults' > faults) =>
             (Failed(last'.res) /\ ~panicked' /\ phase' = "open")]_vars

\* a release has met a failure after the seek, the placeholder still in place
C8_Witness ==
    /\ last.op = "drop" /\ faults > 0 /\ panicked
    /\ write.seeks = 1 /\ write.hdrs = 1

\* C9: a close that fails leaves the writer not closed, and on a writer that
\* is not closed neither write nor close fails with Closed.
C9_FailedCloseStaysOpen ==
    [][/\ (last'.op = "close" /\ Failed(last'.res)) => ~closed'
       /\ (~closed /\ last'.op \in {"write", "close"}) => last'.res # "Closed"]_vars

\* a close has succeeded after a close that failed past its seek
C9_Witness ==
    /\ last.op = "close" /\ last.res = "Ok" /\ closed
    /\ faults = 1 /\ write.seeks = 2

C11_NewDiscardsStatistics ==
    (last.op = "new" /\ last.res = "Ok") =>
        /\ phase = "open" /\ ~closed
        /\ header.number_of_points = 0
        /\ header.min = EmptyLo /\ header.max = EmptyHi
        /\ HeaderAt(write.data, start, 0, EmptyLo, EmptyHi)

\* new has succeeded on a header that carried a count and bounds
C11_Witness == last.op = "new" /\ last.res = "Ok" /\ last.ctx = "stats"

\* the point records on the stream
PointRecords == Cardinality({i \in DOMAIN write.data : write.data[i].k = "pt"})

\* the point of the last write matched the format exactly
LastExact == ~last.missing /\ ~last.surplus /\ last.extra_ok

\* C12: the header's count and bounds are those of the points that passed
\* validation so far; the count never decreases, and the header changes only
\* in a write, on an open writer, of a point that matches the format.
C12_HeaderReflectsAccepted ==
    /\ [](phase \in {"open", "dropped"} =>
            /\ header.number_of_points = Len(accepted)
            /\ header.min = MinOf(accepted) /\ header.max = MaxOf(accepted))
    /\ [][phase = "open" =>
            /\ header'.number_of_points >= header.number_of_points
            /\ header' # header =>
                  (last'.op = "write" /\ last'.open /\ LastExact')]_vars

\* a second point, at another position, has been accepted
C12_Witness ==
    /\ last.op = "write" /\ last.res = "Ok"
    /\ header.number_of_points = 2 /\ accepted[1] # accepted[2]

\* C13: a write rejected with PointAttributes leaves the writer open, and the
\* write of a matching point that follows it (nothing failing) returns Ok,
\* adds one to the count and appends one point record at the sink's position.
C13_RejectionIsNotTerminal ==
    /\ []((last.op = "write" /\ last.res = "PointAttributes") =>
            (phase = "open" /\ ~closed))
    /\ [][(last'.op = "write" /\ last'.ctx = "after_reject" /\ LastExact'
            /\ faults' = faults) =>
            /\ last'.res = "Ok"
            /\ header'.number_of_points = header.number_of_points + 1
            /\ Len(accepted') = Len(accepted) + 1
            /\ write'.pos = write.pos + 1
            /\ Len(write'.data) >= write'.pos
            /\ write'.data[write'.pos] =
                  Cell("pt", 0, 0, accepted'[Len(accepted')],
                       accepted'[Len(accepted')])]_vars

\* a point has been accepted right after a point was rejected
C13_Witness ==
    last.op = "write" /\ last.ctx = "after_reject" /\ last.res = "Ok"

\* C14 (as claimed): new and write never move the sink's position backward,
\* and at most one seek is ever issued on the writer's sink.
C14_OneBackwardSeek ==
    /\ [][last'.op \in {"new", "write"} => write'.pos >= write.pos]_vars
    /\ [](write.seeks <= 1)

\* C14 (amended): new and write never move the sink's position backward and
\* never seek; every seek is issued by a close attempt (explicit, or made by
\* release or into_inner), at most one per attempt; and at most one seek is
\* issued in a lifetime in which no step fails.
C14_SeeksOnlyInClose ==
    /\ [][/\ last'.op \in {"new", "write"} =>
                (write'.pos >= write.pos /\ write'.seeks = write.seeks)
          /\ write'.seeks # write.seeks =>
                (/\ last'.op \in {"close", "drop", "into_inner"}
                 /\ write'.pos <= write.pos + Len(evlrs)
                 /\ write'.seeks <= write.seeks
                        + (IF last'.op = "into_inner" THEN 2 ELSE 1))]_vars
    /\ [](faults = 0 => write.seeks <= 1)

\* a close retried after a close that failed past its seek has seeked again
C14_Witness == write.seeks = 2 /\ last.ctx = "after_failed_close"

\* C15: a write that passes validation and then fails in the encoding of the
\* point or at the sink returns that error with the count already raised by
\* one and no point record added, and the writer stays open; when it is the
\* first failure, the count is the number of point records plus one.
C15_HeaderAheadOfStream ==
    /\ [][(last'.op = "write" /\ Failed(last'.res)) =>
            /\ LastExact'
            /\ header'.number_of_points = header.number_of_points + 1
            /\ PointRecords' = PointRecords
            /\ phase' = "open" /\ ~closed']_vars
    /\ []((last.op = "write" /\ Failed(last.res) /\ faults = 1) =>
            header.number_of_points = PointRecords + 1)

\* the write of a second point has failed after the first was written
C15_Witness ==
    /\ last.op = "write" /\ Failed(last.res)
    /\ header.number_of_points = 2 /\ PointRecords = 1

\* C16: on a closed writer write(P) returns Closed for every P, matching the
\* format or not, and a write or a close that returns Closed leaves the
\* header, the sink's contents and the sink's position unchanged.
C16_ClosedCheckComesFirst ==
    /\ [][(closed /\ last'.op = "write") => last'.res = "Closed"]_vars
    /\ [][(last'.op \in {"write", "close"} /\ last'.res = "Closed") =>
            /\ closed /\ closed'
            /\ header' = header
            /\ write' = write]_vars

\* a point lacking an attribute of the format got Closed, not PointAttributes
C16_Witness == last.op = "write" /\ last.res = "Closed" /\ last.missing

\* C17: a close that failed, followed at once by a close that succeeds,
\* leaves the stream a first successful close would have left (a sink that
\* started at offset 0, no other failure).
C17_CloseRetryIsIdempotent ==
    (/\ closed /\ start = 0 /\ faults = 1
     /\ last.op = "close" /\ last.res = "Ok" /\ last.ctx = "after_failed_close")
        => StreamFrom(0) = ExpectedStream

\* C18: when into_inner returns an error, the sink is left as into_inner left
\* it and the release of the consumed writer does not panic.
C18_IntoInnerFailureIsQuiet ==
    [][(last'.op = "into_inner" /\ Failed(last'.res)) =>
        /\ ~panicked'
        /\ \E f \in IntoInnerFaults :
              /\ Writer_into_inner(Self, f).res = last'.res
              /\ Writer_into_inner(Self, f).self.write = write']_vars

\* no write has failed: nothing has failed, or the one failure was that of
\* a close past its seek
NoWriteFailed == faults = 0 \/ (faults = 1 /\ write.seeks = 2)

\* C19: when the writer is closed, the header region at the start of the
\* stream is the finalized in-memory header, and with no failed write the
\* number of point records on the stream is the header's count.
C19_ClosedStreamMatchesHeader ==
    closed =>
        /\ HeaderAt(write.data, 0, header.number_of_points, header.min, header.max)
        /\ NoWriteFailed => PointRecords = header.number_of_points

EvlrRecords == Cardinality({i \in DOMAIN write.data : write.data[i].k = "evlr"})

\* C20: on a writer already closed, release and into_inner write nothing to
\* the writer's sink and do not panic; a lifetime without failures that ends
\* in the release of the writer has written the extended metadata records
\* once and the header twice (the placeholder of new, the final header).
C20_CloseTakesEffectOnce ==
    /\ [][(closed /\ last'.op \in {"drop", "into_inner"}) =>
            /\ write' = write
            /\ closed' /\ ~panicked']_vars
    /\ []((phase = "dropped" /\ faults = 0) =>
            /\ closed
            /\ write.hdrs = 2 /\ write.seeks = 1
            /\ EvlrRecords = Len(evlrs))

\* a writer closed by close() has been released
C20_Witness ==
    /\ phase = "dropped" /\ last.op = "drop" /\ ~last.open
    /\ faults = 0 /\ header.number_of_points = 1
====
